---- MODULE Spec2Model ----
(***************************************************************************)
(* MindMate: the Streamlit application (app.py) with its text classifier   *)
(* and reply selector (chatbot.py), the word-list polarity scorer          *)
(* (journal.py), the SQLite store (database.py) and the mood aggregator    *)
(* (mood_plot.py).                                                         *)
(*                                                                         *)
(* A text is a sequence of characters; a character is a one-character      *)
(* string.  The four characters outside ASCII that the source uses are     *)
(* written by name: "RSQUO" (right single quote), "LSQUO" (left single     *)
(* quote), "MDASH" (em dash) and "HELLIP" (ellipsis).                      *)
(*                                                                         *)
(* A TextBlob polarity is an integer number of hundredths (-100 .. 100).   *)
(*                                                                         *)
(* The file src/unnamed/part_000 is an earlier Flask front end.  Its line  *)
(* 36 imports get_bot_response from chatbot, a name chatbot.py does not    *)
(* define, so the import raises and none of its handlers can run; the      *)
(* program modelled here is app.py.                                        *)
(***************************************************************************)
EXTENDS Integers, Sequences, FiniteSets, TLC

VARIABLES
    tables,              \* names of the tables that exist in database.db
    journal_entries,     \* rows of table journal_entries, in rowid order
    mood_signals,        \* rows of table mood_signals, in rowid order
    clock,               \* datetime.now(), in seconds
    messages,            \* st.session_state.messages
    last_intent,         \* st.session_state.last_intent
    last_emotion,        \* st.session_state.last_emotion
    last_achievement,    \* st.session_state.last_achievement
    memory_hint_shown,   \* st.session_state._memory_hint_shown
    page_out,            \* what the last script run rendered
    call,                \* arguments of a function under test
    ret                  \* its result

dbVars == <<tables, journal_entries, mood_signals, clock>>
sessionVars == <<messages, last_intent, last_emotion, last_achievement, memory_hint_shown>>
appVars == <<tables, journal_entries, mood_signals, clock, messages, last_intent,
             last_emotion, last_achievement, memory_hint_shown, page_out>>
vars == <<tables, journal_entries, mood_signals, clock, messages, last_intent,
          last_emotion, last_achievement, memory_hint_shown, page_out, call, ret>>

----------------------------------------------------------------------------
\* Characters and the string primitives of Python the source relies on.

LowerLetters ==
    {"a","b","c","d","e","f","g","h","i","j","k","l","m",
     "n","o","p","q","r","s","t","u","v","w","x","y","z"}
UpperSeq ==
    <<"A","B","C","D","E","F","G","H","I","J","K","L","M",
      "N","O","P","Q","R","S","T","U","V","W","X","Y","Z">>
LowerSeq ==
    <<"a","b","c","d","e","f","g","h","i","j","k","l","m",
      "n","o","p","q","r","s","t","u","v","w","x","y","z">>
UpperLetters == {UpperSeq[i] : i \in 1..Len(UpperSeq)}
Digits == {"0","1","2","3","4","5","6","7","8","9"}
\* \w of the re module
WordChars == LowerLetters \cup UpperLetters \cup Digits \cup {"_"}
\* what str.strip() removes
Whitespace == {" ", "\t", "\n"}

\* the lowercase of each character
LowerMap ==
    [c \in UpperLetters |-> LowerSeq[CHOOSE i \in 1..Len(UpperSeq) : UpperSeq[i] = c]]
LowerChar(c) == IF c \in UpperLetters THEN LowerMap[c] ELSE c

\* str.lower()
lower(s) == [i \in 1..Len(s) |-> LowerChar(s[i])]

RECURSIVE lstrip(_)
lstrip(s) ==
    IF s # <<>> /\ Head(s) \in Whitespace THEN lstrip(Tail(s)) ELSE s

RECURSIVE rstrip(_)
rstrip(s) ==
    IF s # <<>> /\ s[Len(s)] \in Whitespace
    THEN rstrip(SubSeq(s, 1, Len(s) - 1))
    ELSE s

\* str.strip()
strip(s) == rstrip(lstrip(s))

\* p in text
Contains(text, p) ==
    \/ p = <<>>
    \/ \E i \in 1..(Len(text) - Len(p) + 1) :
          /\ text[i] = p[1]
          /\ SubSeq(text, i, i + Len(p) - 1) = p

\* any(p in text for p in phrases)
contains_any(text, phrases) == \E p \in phrases : Contains(text, p)

\* whether position k of text holds a \w character (positions outside the
\* text hold none)
IsWordAt(text, k) == k >= 1 /\ k <= Len(text) /\ text[k] \in WordChars

\* \b between positions k and k+1
WordBoundary(text, k) == IsWordAt(text, k) # IsWordAt(text, k + 1)

\* re.search(r"\b" + lit + r"\b", text) for a literal lit
SearchBounded(text, lit) ==
    \E i \in 1..(Len(text) - Len(lit) + 1) :
        /\ text[i] = lit[1]
        /\ SubSeq(text, i, i + Len(lit) - 1) = lit
        /\ WordBoundary(text, i - 1)
        /\ WordBoundary(text, i + Len(lit) - 1)

----------------------------------------------------------------------------
\* chatbot.py: the text classifier.

POS_THRESHOLD == 30
NEG_THRESHOLD == -30

\* TextBlob(text).sentiment.polarity is a library value: any polarity the
\* library can return for a text; for the empty text it returns 0.0.
PolarityValues == {-100, -31, -30, 0, 30, 31, 100}
\* the polarities the application's runs draw from
AppPolarityValues == {0, 100}
TextBlobPolarity(text) == IF text = <<>> THEN {0} ELSE PolarityValues

\* a faulty variant: the first comparison made against the wrong threshold
get_emotion_WrongThreshold(polarity) ==
    IF polarity > NEG_THRESHOLD THEN "positive"
    ELSE IF polarity < NEG_THRESHOLD THEN "negative"
    ELSE "neutral"

get_emotion(polarity) ==
    IF polarity > POS_THRESHOLD THEN "positive"
    ELSE IF polarity < NEG_THRESHOLD THEN "negative"
    ELSE "neutral"

positive_terms ==
    {<<"h","a","p","p","y">>, <<"g","o","o","d">>, <<"g","r","e","a","t">>, <<"e","x","c","i","t","e","d">>, <<"o","k","a","y">>, <<"o","k">>, <<"f","i","n","e">>,
     <<"p","o","s","i","t","i","v","e">>, <<"c","a","l","m">>, <<"c","o","n","t","e","n","t">>}
negative_terms ==
    {<<"s","a","d">>, <<"d","o","w","n">>, <<"d","e","p","r","e","s","s","e","d">>, <<"a","n","x","i","o","u","s">>, <<"a","n","g","r","y">>, <<"s","t","r","e","s","s","e","d">>,
     <<"w","o","r","r","i","e","d">>, <<"u","p","s","e","t">>}

\* The literals the five patterns of _has_negated match for a term t: an
\* optional group contributes each of its alternatives and the empty text.
NegationLiterals ==
    [t \in positive_terms \cup negative_terms |->
        LET soThat == {<<>>, <<"s","o"," ">>, <<"t","h","a","t"," ">>}
            feel   == {<<>>, <<"f","e","e","l"," ">>, <<"f","e","e","l","i","n","g"," ">>}
        IN  {<<"n","o","t"," ">> \o m \o t : m \in soThat}
            \cup {<<"n","o","t"," ","f","e","e","l","i","n","g"," ">> \o m \o t : m \in soThat}
            \cup {<<"d","o","n","'","t"," ","f","e","e","l"," ">> \o m \o t : m \in soThat}
            \cup {<<"d","o"," ","n","o","t"," ","f","e","e","l"," ">> \o m \o t : m \in soThat}
            \cup {<<"n","o"," ","l","o","n","g","e","r"," ">> \o m \o t : m \in feel}]

\* (every literal of a term contains the term: the first conjunct only
\* spares the search for the terms the text does not hold)
has_negated(text, terms) ==
    \E t \in terms :
        /\ Contains(text, t)
        /\ \E lit \in NegationLiterals[t] : SearchBounded(text, lit)

AchievementPhrases ==
    {<<"i"," ","m","a","d","e">>, <<"i"," ","b","u","i","l","t">>, <<"i"," ","c","r","e","a","t","e","d">>, <<"i"," ","a","c","h","i","e","v","e","d">>, <<"i"," ","a","c","c","o","m","p","l","i","s","h","e","d">>,
     <<"p","r","o","m","o","t","i","o","n">>, <<"g","o","t"," ","h","i","r","e","d">>, <<"w","o","n">>, <<"p","a","s","s","e","d">>, <<"n","a","i","l","e","d"," ","i","t">>,
     <<"b","i","g"," ","a","c","h","i","e","v","e","m","e","n","t">>, <<"p","r","o","u","d"," ","o","f">>, <<"s","h","i","p","p","e","d">>}
GratitudePhrases == {<<"t","h","a","n","k"," ","y","o","u">>, <<"t","h","a","n","k","s">>, <<"a","p","p","r","e","c","i","a","t","e"," ","i","t">>, <<"g","r","a","t","e","f","u","l">>}
ApologyPhrases == {<<"s","o","r","r","y">>, <<"a","p","o","l","o","g","i","e","s">>, <<"m","y"," ","f","a","u","l","t">>, <<"a","p","o","l","o","g","i","z","e">>}
AngerPhrases == {<<"a","n","g","r","y">>, <<"m","a","d">>, <<"f","u","r","i","o","u","s">>, <<"p","i","s","s","e","d">>, <<"r","a","g","e">>}
TirednessPhrases ==
    {<<"t","i","r","e","d">>, <<"e","x","h","a","u","s","t","e","d">>, <<"d","r","a","i","n","e","d">>, <<"f","a","t","i","g","u","e","d">>, <<"s","l","e","e","p","y">>, <<"b","u","r","n","t"," ","o","u","t">>,
     <<"b","u","r","n","e","d"," ","o","u","t">>}
OverwhelmPhrases ==
    {<<"o","v","e","r","w","h","e","l","m","e","d">>, <<"t","o","o"," ","m","u","c","h">>, <<"c","a","n","RSQUO","t"," ","h","a","n","d","l","e">>, <<"c","a","n","t"," ","h","a","n","d","l","e">>, <<"o","v","e","r","l","o","a","d","e","d">>}
ConfusionPhrases ==
    {<<"c","o","n","f","u","s","e","d">>, <<"d","o","n","RSQUO","t"," ","k","n","o","w">>, <<"d","o","n","t"," ","k","n","o","w">>, <<"u","n","s","u","r","e">>, <<"u","n","c","e","r","t","a","i","n">>}
LonelinessPhrases == {<<"l","o","n","e","l","y">>, <<"a","l","o","n","e">>, <<"i","s","o","l","a","t","e","d">>}
AnxietyPhrases == {<<"a","n","x","i","o","u","s">>, <<"a","n","x","i","e","t","y">>, <<"w","o","r","r","i","e","d">>, <<"s","t","r","e","s","s">>, <<"s","t","r","e","s","s","e","d">>}
JournalOtherPhrases == {<<"w","r","i","t","e">>, <<"d","i","a","r","y">>, <<"j","o","u","r","n","a","l","i","n","g">>, <<"n","o","t","e","s">>}
BreathingPhrases ==
    {<<"b","r","e","a","t","h","e">>, <<"b","r","e","a","t","h","i","n","g">>, <<"g","r","o","u","n","d","i","n","g">>, <<"r","e","l","a","x">>, <<"c","a","l","m"," ","d","o","w","n">>}
CapabilityPhrases ==
    {<<"w","h","o"," ","a","r","e"," ","y","o","u">>, <<"w","h","a","t"," ","a","r","e"," ","y","o","u">>, <<"w","h","a","t"," ","c","a","n"," ","y","o","u"," ","d","o">>, <<"h","e","l","p"," ","m","e">>,
     <<"h","o","w"," ","c","a","n"," ","y","o","u"," ","h","e","l","p">>, <<"w","h","a","t"," ","c","a","n"," ","i"," ","d","o">>}
GreetPhrases ==
    {<<"h","e","l","l","o">>, <<"h","i">>, <<"h","e","y">>, <<"g","o","o","d"," ","m","o","r","n","i","n","g">>, <<"g","o","o","d"," ","e","v","e","n","i","n","g">>, <<"g","o","o","d"," ","a","f","t","e","r","n","o","o","n">>}

\* a faulty variant: the gratitude rule tested before the achievement rule
DetectIntent_GratitudeFirst(text) ==
    IF contains_any(text, GratitudePhrases) THEN "gratitude"
    ELSE IF contains_any(text, AchievementPhrases) THEN "achievement"
    ELSE IF contains_any(text, ApologyPhrases) THEN "apology"
    ELSE IF contains_any(text, AngerPhrases) THEN "anger"
    ELSE IF contains_any(text, TirednessPhrases) THEN "tiredness"
    ELSE IF contains_any(text, OverwhelmPhrases) THEN "overwhelm"
    ELSE IF contains_any(text, ConfusionPhrases) THEN "confusion"
    ELSE IF contains_any(text, LonelinessPhrases) THEN "loneliness"
    ELSE IF contains_any(text, AnxietyPhrases) THEN "anxiety"
    ELSE IF Contains(text, <<"j","o","u","r","n","a","l">>)
            \/ contains_any(text, JournalOtherPhrases)
         THEN "journal"
    ELSE IF contains_any(text, BreathingPhrases) THEN "breathing"
    ELSE IF contains_any(text, CapabilityPhrases) THEN "capability"
    ELSE IF contains_any(text, GreetPhrases) THEN "greet"
    ELSE "none"

\* the if/elif chain of detect_intent_and_emotion over the stripped,
\* lowercased text
DetectIntent(text) ==
    IF contains_any(text, AchievementPhrases) THEN "achievement"
    ELSE IF contains_any(text, GratitudePhrases) THEN "gratitude"
    ELSE IF contains_any(text, ApologyPhrases) THEN "apology"
    ELSE IF contains_any(text, AngerPhrases) THEN "anger"
    ELSE IF contains_any(text, TirednessPhrases) THEN "tiredness"
    ELSE IF contains_any(text, OverwhelmPhrases) THEN "overwhelm"
    ELSE IF contains_any(text, ConfusionPhrases) THEN "confusion"
    ELSE IF contains_any(text, LonelinessPhrases) THEN "loneliness"
    ELSE IF contains_any(text, AnxietyPhrases) THEN "anxiety"
    ELSE IF Contains(text, <<"j","o","u","r","n","a","l">>)
            \/ contains_any(text, JournalOtherPhrases)
         THEN "journal"
    ELSE IF contains_any(text, BreathingPhrases) THEN "breathing"
    ELSE IF contains_any(text, CapabilityPhrases) THEN "capability"
    ELSE IF contains_any(text, GreetPhrases) THEN "greet"
    ELSE "none"

\* a faulty variant: the negated-positive override left out
DetectEmotion_NoNegatedPositive(text, polarity) ==
    IF has_negated(text, negative_terms) THEN "neutral"
    ELSE get_emotion(polarity)

\* a faulty variant: a negated negative term read as a positive emotion
DetectEmotion_NegatedNegativePositive(text, polarity) ==
    IF has_negated(text, positive_terms) THEN "negative"
    ELSE IF has_negated(text, negative_terms) THEN "positive"
    ELSE get_emotion(polarity)

\* base emotion from TextBlob, then the negation overrides
DetectEmotion(text, polarity) ==
    IF has_negated(text, positive_terms) THEN "negative"
    ELSE IF has_negated(text, negative_terms) THEN "neutral"
    ELSE get_emotion(polarity)

\* polarity is TextBlob's polarity of the stripped, lowercased input
detect_intent_and_emotion(user_input, polarity) ==
    LET text == strip(lower(user_input))
    IN  [emotion |-> DetectEmotion(text, polarity), intent |-> DetectIntent(text)]

----------------------------------------------------------------------------
\* chatbot.py: the rule-based reply selector.

R_DEFAULT == <<"I","'","m"," ","h","e","r","e"," ","t","o"," ","l","i","s","t","e","n","."," ","H","o","w"," ","a","r","e"," ","y","o","u"," ","f","e","e","l","i","n","g"," ","t","o","d","a","y","?">>
R_ACHIEVEMENT == <<"T","h","a","t","RSQUO","s"," ","a","m","a","z","i","n","g"," ","MDASH"," ","c","o","n","g","r","a","t","u","l","a","t","i","o","n","s","!"," ","W","h","a","t"," ","p","a","r","t"," ","o","f"," ","t","h","i","s"," ","a","c","h","i","e","v","e","m","e","n","t"," ","m","a","k","e","s"," ","y","o","u"," ","m","o","s","t"," ","p","r","o","u","d","?">>
R_GRATITUDE == <<"Y","o","u","RSQUO","r","e"," ","v","e","r","y"," ","w","e","l","c","o","m","e","."," ","I","RSQUO","m"," ","g","l","a","d"," ","t","o"," ","b","e"," ","h","e","r","e"," ","f","o","r"," ","y","o","u",".">>
R_APOLOGY == <<"I","t","RSQUO","s"," ","o","k","a","y"," ","t","o"," ","m","a","k","e"," ","m","i","s","t","a","k","e","s","."," ","W","h","a","t"," ","w","o","u","l","d"," ","h","e","l","p"," ","y","o","u"," ","b","e"," ","k","i","n","d","e","r"," ","t","o"," ","y","o","u","r","s","e","l","f"," ","r","i","g","h","t"," ","n","o","w","?">>
R_ANGER == <<"A","n","g","e","r"," ","c","a","n"," ","f","e","e","l"," ","i","n","t","e","n","s","e","."," ","W","o","u","l","d"," ","a"," ","s","h","o","r","t"," ","g","r","o","u","n","d","i","n","g"," ","e","x","e","r","c","i","s","e"," ","h","e","l","p"," ","y","o","u"," ","r","e","l","e","a","s","e"," ","s","o","m","e"," ","o","f"," ","t","h","a","t"," ","t","e","n","s","i","o","n","?">>
R_TIREDNESS == <<"Y","o","u"," ","s","o","u","n","d"," ","w","o","r","n"," ","o","u","t","."," ","A"," ","q","u","i","c","k"," ","r","e","s","t",","," ","w","a","t","e","r",","," ","o","r"," ","a"," ","s","h","o","r","t"," ","w","a","l","k"," ","m","i","g","h","t"," ","h","e","l","p","."," ","W","a","n","t"," ","t","o"," ","p","l","a","n"," ","a"," ","t","i","n","y"," ","b","r","e","a","k","?">>
R_OVERWHELM == <<"F","e","e","l","i","n","g"," ","o","v","e","r","w","h","e","l","m","e","d"," ","i","s"," ","t","o","u","g","h","."," ","L","e","t","RSQUO","s"," ","b","r","e","a","k"," ","t","h","i","n","g","s"," ","i","n","t","o"," ","o","n","e"," ","s","m","a","l","l"," ","n","e","x","t"," ","s","t","e","p","MDASH","w","h","a","t","RSQUO","s"," ","t","h","e"," ","f","i","r","s","t"," ","d","o","a","b","l","e"," ","a","c","t","i","o","n","?">>
R_CONFUSION == <<"I","t","RSQUO","s"," ","o","k","a","y"," ","t","o"," ","n","o","t"," ","h","a","v","e"," ","a","l","l"," ","t","h","e"," ","a","n","s","w","e","r","s","."," ","W","h","a","t"," ","o","p","t","i","o","n","s"," ","a","r","e"," ","y","o","u"," ","c","o","n","s","i","d","e","r","i","n","g"," ","r","i","g","h","t"," ","n","o","w","?">>
R_LONELINESS == <<"Y","o","u","RSQUO","r","e"," ","n","o","t"," ","a","l","o","n","e","."," ","I","RSQUO","m"," ","h","e","r","e"," ","w","i","t","h"," ","y","o","u","."," ","W","o","u","l","d"," ","r","e","a","c","h","i","n","g"," ","o","u","t"," ","t","o"," ","s","o","m","e","o","n","e"," ","o","r"," ","j","o","u","r","n","a","l","i","n","g"," ","h","e","l","p"," ","r","i","g","h","t"," ","n","o","w","?">>
R_ANXIETY == <<"D","e","e","p"," ","b","r","e","a","t","h","i","n","g"," ","c","a","n"," ","h","e","l","p","."," ","W","a","n","t"," ","m","e"," ","t","o"," ","g","u","i","d","e"," ","y","o","u"," ","t","h","r","o","u","g","h"," ","a"," ","s","h","o","r","t"," ","e","x","e","r","c","i","s","e","?">>
R_SAD == <<"I","'","m"," ","h","e","r","e"," ","f","o","r"," ","y","o","u","."," ","W","o","u","l","d"," ","y","o","u"," ","l","i","k","e"," ","t","o"," ","t","r","y"," ","a"," ","b","r","e","a","t","h","i","n","g"," ","e","x","e","r","c","i","s","e"," ","o","r"," ","w","r","i","t","e"," ","a"," ","j","o","u","r","n","a","l"," ","e","n","t","r","y","?">>
R_HAPPY == <<"T","h","a","t","'","s"," ","w","o","n","d","e","r","f","u","l","!"," ","W","a","n","t"," ","t","o"," ","s","h","a","r","e"," ","w","h","a","t"," ","m","a","d","e"," ","y","o","u","r"," ","d","a","y"," ","s","o"," ","g","o","o","d","?">>
R_JOURNAL == <<"S","u","r","e","!"," ","H","e","a","d"," ","t","o"," ","t","h","e"," ","J","o","u","r","n","a","l"," ","t","a","b"," ","a","n","d"," ","w","r","i","t","e"," ","d","o","w","n"," ","y","o","u","r"," ","t","h","o","u","g","h","t","s",".">>
R_BREATHING == <<"T","r","y"," ","t","h","i","s",":"," ","i","n","h","a","l","e"," ","f","o","r"," ","4",","," ","h","o","l","d"," ","f","o","r"," ","4",","," ","e","x","h","a","l","e"," ","f","o","r"," ","6"," ","MDASH"," ","r","e","p","e","a","t"," ","4"," ","t","i","m","e","s","."," ","H","o","w"," ","d","o"," ","y","o","u"," ","f","e","e","l"," ","a","f","t","e","r"," ","t","h","a","t","?">>
R_CAPABILITY == <<"I","RSQUO","m"," ","M","i","n","d","M","a","t","e","MDASH","h","e","r","e"," ","t","o"," ","l","i","s","t","e","n",","," ","r","e","f","l","e","c","t",","," ","a","n","d"," ","o","f","f","e","r"," ","g","e","n","t","l","e"," ","s","u","g","g","e","s","t","i","o","n","s"," ","l","i","k","e"," ","j","o","u","r","n","a","l","i","n","g"," ","o","r"," ","s","i","m","p","l","e"," ","b","r","e","a","t","h","i","n","g"," ","e","x","e","r","c","i","s","e","s","."," ","W","h","a","t"," ","w","o","u","l","d"," ","h","e","l","p"," ","m","o","s","t"," ","r","i","g","h","t"," ","n","o","w","?">>
R_GREET == <<"H","e","l","l","o","!"," ","H","o","w"," ","a","r","e"," ","y","o","u"," ","f","e","e","l","i","n","g"," ","r","i","g","h","t"," ","n","o","w","?">>
R_POSITIVE == <<"I"," ","l","o","v","e"," ","y","o","u","r"," ","p","o","s","i","t","i","v","e"," ","e","n","e","r","g","y","."," ","W","o","u","l","d"," ","y","o","u"," ","l","i","k","e"," ","t","o"," ","c","a","p","t","u","r","e"," ","t","h","i","s"," ","i","n"," ","y","o","u","r"," ","j","o","u","r","n","a","l","?">>
R_NEGATIVE == <<"T","h","a","t"," ","s","o","u","n","d","s"," ","t","o","u","g","h","."," ","I","'","m"," ","h","e","r","e"," ","f","o","r"," ","y","o","u","."," ","W","a","n","t"," ","t","o"," ","t","a","l","k"," ","m","o","r","e"," ","o","r"," ","w","r","i","t","e"," ","a","b","o","u","t"," ","i","t","?">>
R_QUESTION == <<"T","h","a","t","RSQUO","s"," ","a"," ","t","h","o","u","g","h","t","f","u","l"," ","q","u","e","s","t","i","o","n","."," ","W","h","a","t"," ","o","u","t","c","o","m","e"," ","w","o","u","l","d"," ","f","e","e","l"," ","r","i","g","h","t"," ","f","o","r"," ","y","o","u","?"," ","S","o","m","e","t","i","m","e","s"," ","w","r","i","t","i","n","g"," ","y","o","u","r"," ","t","h","o","u","g","h","t","s"," ","h","e","l","p","s"," ","c","l","a","r","i","f","y",".">>
R_GENERIC == <<"I","'","m"," ","l","i","s","t","e","n","i","n","g","."," ","T","e","l","l"," ","m","e"," ","a"," ","b","i","t"," ","m","o","r","e"," ","a","b","o","u","t"," ","w","h","a","t","RSQUO","s"," ","o","n"," ","y","o","u","r"," ","m","i","n","d",".">>

SadWords == {<<"s","a","d">>, <<"d","o","w","n">>, <<"d","e","p","r","e","s","s","e","d">>, <<"b","l","u","e">>}
HappyWords ==
    {<<"h","a","p","p","y">>, <<"j","o","y">>, <<"e","x","c","i","t","e","d">>, <<"g","r","e","a","t">>, <<"g","o","o","d">>, <<"a","w","e","s","o","m","e">>, <<"f","a","n","t","a","s","t","i","c">>,
     <<"g","r","a","t","e","f","u","l">>}
QuestionWords ==
    {<<"w","h","a","t">>, <<"w","h","y">>, <<"h","o","w">>, <<"w","h","e","n">>, <<"w","h","e","r","e">>, <<"w","h","o">>, <<"c","a","n">>, <<"s","h","o","u","l","d">>,
     <<"c","o","u","l","d">>, <<"w","o","u","l","d">>, <<"i","s">>, <<"a","r","e">>, <<"d","o">>, <<"d","o","e","s">>}

\* "?" in text, or re.match of \b(what|...|does)\b at the start of text
question_like(text) ==
    \/ Contains(text, <<"?">>)
    \/ \E w \in QuestionWords :
          /\ Len(text) >= Len(w)
          /\ SubSeq(text, 1, Len(w)) = w
          /\ WordBoundary(text, 0)
          /\ WordBoundary(text, Len(w))

\* a faulty variant: the journal request answered before the sentiment rules
get_response_JournalFirst(user_input, polarity) ==
    IF user_input = <<>> \/ strip(user_input) = <<>> THEN R_DEFAULT
    ELSE
    LET text == lower(user_input)
        ctx == detect_intent_and_emotion(text, polarity)
        emotion == ctx.emotion
    IN  IF ctx.intent = "achievement" THEN R_ACHIEVEMENT
        ELSE IF ctx.intent = "gratitude" THEN R_GRATITUDE
        ELSE IF ctx.intent = "apology" THEN R_APOLOGY
        ELSE IF ctx.intent = "anger" THEN R_ANGER
        ELSE IF ctx.intent = "tiredness" THEN R_TIREDNESS
        ELSE IF ctx.intent = "overwhelm" THEN R_OVERWHELM
        ELSE IF ctx.intent = "confusion" THEN R_CONFUSION
        ELSE IF ctx.intent = "loneliness" THEN R_LONELINESS
        ELSE IF ctx.intent = "anxiety" THEN R_ANXIETY
        ELSE IF ctx.intent = "journal" THEN R_JOURNAL
        ELSE IF contains_any(text, SadWords) \/ emotion = "negative" THEN R_SAD
        ELSE IF contains_any(text, HappyWords) \/ emotion = "positive" THEN R_HAPPY
        ELSE IF ctx.intent = "breathing" THEN R_BREATHING
        ELSE IF ctx.intent = "capability" THEN R_CAPABILITY
        ELSE IF ctx.intent = "greet" THEN R_GREET
        ELSE IF emotion = "positive" THEN R_POSITIVE
        ELSE IF emotion = "negative" THEN R_NEGATIVE
        ELSE IF question_like(text) THEN R_QUESTION
        ELSE R_GENERIC

get_response(user_input, polarity) ==
    IF user_input = <<>> \/ strip(user_input) = <<>> THEN R_DEFAULT
    ELSE
    LET text == lower(user_input)
        ctx == detect_intent_and_emotion(text, polarity)
        emotion == ctx.emotion
    IN  IF ctx.intent = "achievement" THEN R_ACHIEVEMENT
        ELSE IF ctx.intent = "gratitude" THEN R_GRATITUDE
        ELSE IF ctx.intent = "apology" THEN R_APOLOGY
        ELSE IF ctx.intent = "anger" THEN R_ANGER
        ELSE IF ctx.intent = "tiredness" THEN R_TIREDNESS
        ELSE IF ctx.intent = "overwhelm" THEN R_OVERWHELM
        ELSE IF ctx.intent = "confusion" THEN R_CONFUSION
        ELSE IF ctx.intent = "loneliness" THEN R_LONELINESS
        ELSE IF ctx.intent = "anxiety" THEN R_ANXIETY
        ELSE IF contains_any(text, SadWords) \/ emotion = "negative" THEN R_SAD
        ELSE IF contains_any(text, HappyWords) \/ emotion = "positive" THEN R_HAPPY
        ELSE IF ctx.intent = "journal" THEN R_JOURNAL
        ELSE IF ctx.intent = "breathing" THEN R_BREATHING
        ELSE IF ctx.intent = "capability" THEN R_CAPABILITY
        ELSE IF ctx.intent = "greet" THEN R_GREET
        ELSE IF emotion = "positive" THEN R_POSITIVE
        ELSE IF emotion = "negative" THEN R_NEGATIVE
        ELSE IF question_like(text) THEN R_QUESTION
        ELSE R_GENERIC

----------------------------------------------------------------------------
\* chatbot.py: the generative service and the unified reply generator.
\*
\* An optional value (a str or None) is [some, text]: None has some = FALSE.
\* env is the environment: openai_key (OPENAI_API_KEY set and non-empty),
\* openai_installed (the openai import succeeded), ollama_base_url ("unset",
\* "empty" when set to the empty string, "set").
\* service is what the remote call would do: kind is "timeout",
\* "connect_error", "http_error" (non-2xx), "bad_json" (the body is not JSON
\* or not an object), or "ok" with the payload's texts: content is the
\* message content (choices[0].message.content, or message.content), response
\* is Ollama's "response" field, no_choices says OpenAI's choices is empty.

NoneVal == [some |-> FALSE, text |-> <<>>]
Some(t) == [some |-> TRUE, text |-> t]
\* Python truth of an optional str
Truthy(o) == o.some /\ o.text # <<>>

llm_available(env) ==
    IF env.openai_key /\ env.openai_installed THEN TRUE
    ELSE env.ollama_base_url # "empty"

\* The try body of get_llm_response: [raised, value], raised when the body
\* raises an exception.
LlmTryBody(env, service) ==
    LET use_openai == env.openai_key /\ env.openai_installed
        Raise == [raised |-> TRUE, value |-> NoneVal]
        Return(v) == [raised |-> FALSE, value |-> v]
    IN  IF service.kind # "ok" THEN Raise
        ELSE IF use_openai
        THEN IF service.no_choices THEN Return(NoneVal)
             ELSE IF ~service.content.some THEN Raise   \* None.strip()
             ELSE Return(Some(strip(service.content.text)))
        ELSE LET content == IF Truthy(service.content) THEN service.content
                            ELSE service.response
             IN  IF Truthy(content) THEN Return(Some(strip(content.text)))
                 ELSE Return(NoneVal)

\* a faulty variant: no except clause, the exception leaves the function
LlmExcept_NoCatch(r) == r

\* except Exception: return None
LlmExcept(r) == IF r.raised THEN [raised |-> FALSE, value |-> NoneVal] ELSE r

\* [raised, value, calls]: calls counts the remote calls made
get_llm_response(user_input, history, style, env, service) ==
    IF ~llm_available(env)
    THEN [raised |-> FALSE, value |-> NoneVal, calls |-> 0]
    ELSE LET r == LlmExcept(LlmTryBody(env, service))
         IN  [raised |-> r.raised, value |-> r.value, calls |-> 1]

\* a faulty variant: a call that gave nothing is made a second time
generate_reply_Retry(user_input, history, style, env, service, polarity) ==
    LET first == get_llm_response(user_input, history, style, env, service)
        llm == IF ~first.raised /\ ~Truthy(first.value)
               THEN get_llm_response(user_input, history, style, env, service)
               ELSE first
        calls == IF ~first.raised /\ ~Truthy(first.value)
                 THEN first.calls + llm.calls ELSE first.calls
    IN  IF llm.raised
        THEN [raised |-> TRUE, value |-> <<>>, calls |-> calls, llm |-> FALSE]
        ELSE IF Truthy(llm.value)
        THEN [raised |-> FALSE, value |-> llm.value.text, calls |-> calls, llm |-> TRUE]
        ELSE [raised |-> FALSE, value |-> get_response(user_input, polarity),
              calls |-> calls, llm |-> FALSE]

\* [raised, value, calls, llm]: value is the reply, llm says it came from
\* the generative service
generate_reply(user_input, history, style, env, service, polarity) ==
    LET llm == get_llm_response(user_input, history, style, env, service)
    IN  IF llm.raised
        THEN [raised |-> TRUE, value |-> <<>>, calls |-> llm.calls, llm |-> FALSE]
        ELSE IF Truthy(llm.value)
        THEN [raised |-> FALSE, value |-> llm.value.text, calls |-> llm.calls, llm |-> TRUE]
        ELSE [raised |-> FALSE, value |-> get_response(user_input, polarity),
              calls |-> llm.calls, llm |-> FALSE]

----------------------------------------------------------------------------
\* journal.py: the word-list polarity scorer.
\*
\* A polarity (a float of the source) is a fraction in lowest terms
\* [num, den] with den > 0: 1.0 is [1, 1], 0.0 is [0, 1].

POSITIVE_WORDS ==
    {<<"h","a","p","p","y">>, <<"j","o","y">>, <<"j","o","y","f","u","l">>, <<"g","o","o","d">>, <<"g","r","e","a","t">>, <<"l","o","v","e">>, <<"e","x","c","i","t","e","d">>,
     <<"w","o","n","d","e","r","f","u","l">>, <<"d","e","l","i","g","h","t","e","d">>, <<"c","o","n","t","e","n","t">>, <<"f","o","r","t","u","n","a","t","e">>, <<"g","r","a","t","e","f","u","l">>, <<"c","a","l","m">>}
NEGATIVE_WORDS ==
    {<<"s","a","d">>, <<"d","e","p","r","e","s","s","e","d">>, <<"d","o","w","n">>, <<"a","n","g","r","y">>, <<"f","r","u","s","t","r","a","t","e","d">>, <<"u","n","h","a","p","p","y">>,
     <<"a","n","x","i","o","u","s">>, <<"n","e","r","v","o","u","s">>, <<"w","o","r","r","i","e","d">>, <<"b","a","d">>, <<"u","p","s","e","t">>, <<"f","e","a","r">>, <<"l","o","n","e","l","y">>,
     <<"h","o","p","e","l","e","s","s">>}

Abs(n) == IF n < 0 THEN -n ELSE n
RECURSIVE Gcd(_, _)
Gcd(a, b) == IF b = 0 THEN a ELSE Gcd(b, a % b)
\* the float n / d, d > 0
Frac(n, d) == LET g == Gcd(Abs(n), d) IN [num |-> n \div g, den |-> d \div g]

RECURSIVE TokensFrom(_, _, _)
\* re.findall(r"\b\w+\b", s): the maximal runs of \w characters, in order.
\* cur is the run being read, acc the runs already closed.
TokensFrom(s, cur, acc) ==
    IF s = <<>> THEN (IF cur = <<>> THEN acc ELSE Append(acc, cur))
    ELSE IF Head(s) \in WordChars THEN TokensFrom(Tail(s), Append(cur, Head(s)), acc)
    ELSE TokensFrom(Tail(s), <<>>, IF cur = <<>> THEN acc ELSE Append(acc, cur))
Tokens(s) == TokensFrom(s, <<>>, <<>>)

\* sum(1 for token in tokens if token in words)
CountIn(tokens, words) == Cardinality({i \in 1..Len(tokens) : tokens[i] \in words})

\* a faulty variant: a polarity of zero labelled positive
MoodOf_ZeroPositive(polarity) ==
    IF polarity.num >= 0 THEN "positive"
    ELSE IF 10 * polarity.num < -polarity.den THEN "negative"
    ELSE "neutral"

\* polarity > 0.1, polarity < -0.1
MoodOf(polarity) ==
    IF 10 * polarity.num > polarity.den THEN "positive"
    ELSE IF 10 * polarity.num < -polarity.den THEN "negative"
    ELSE "neutral"

\* a faulty variant: the polarity divided by the number of all tokens
analyze_emotion_AllTokens(entry_text) ==
    LET tokens == Tokens(lower(entry_text))
        pos_count == CountIn(tokens, POSITIVE_WORDS)
        neg_count == CountIn(tokens, NEGATIVE_WORDS)
        polarity == IF Len(tokens) = 0 THEN Frac(0, 1)
                    ELSE Frac(pos_count - neg_count, Len(tokens))
    IN  [mood |-> MoodOf(polarity), polarity |-> polarity]

analyze_emotion(entry_text) ==
    LET tokens == Tokens(lower(entry_text))
        pos_count == CountIn(tokens, POSITIVE_WORDS)
        neg_count == CountIn(tokens, NEGATIVE_WORDS)
        total == pos_count + neg_count
        polarity == IF total = 0 THEN Frac(0, 1) ELSE Frac(pos_count - neg_count, total)
    IN  [mood |-> MoodOf(polarity), polarity |-> polarity]

----------------------------------------------------------------------------
\* database.py and the INSERT statements of app.py.  A database is
\* [tables, journal_entries, mood_signals]; the rows of a table are in rowid
\* order.

DB == [tables |-> tables, journal_entries |-> journal_entries,
       mood_signals |-> mood_signals]

\* a faulty variant: the tables created anew on every start
init_db_Recreate(db) ==
    [tables |-> db.tables \cup {"journal_entries", "mood_signals"},
     journal_entries |-> <<>>,
     mood_signals |-> <<>>]

\* CREATE TABLE IF NOT EXISTS, twice
init_db(db) ==
    [tables |-> db.tables \cup {"journal_entries", "mood_signals"},
     journal_entries |->
        IF "journal_entries" \in db.tables THEN db.journal_entries ELSE <<>>,
     mood_signals |->
        IF "mood_signals" \in db.tables THEN db.mood_signals ELSE <<>>]

\* a faulty variant: every emotion but positive stored as -1.0
ChatPolarity_NoNeutral(emotion) ==
    IF emotion = "positive" THEN Frac(1, 1) ELSE Frac(-1, 1)

\* 1.0 if emotion == "positive" else (-1.0 if emotion == "negative" else 0.0)
ChatPolarity(emotion) ==
    IF emotion = "positive" THEN Frac(1, 1)
    ELSE IF emotion = "negative" THEN Frac(-1, 1)
    ELSE Frac(0, 1)

\* app.py, the chat page's INSERT INTO mood_signals
InsertChatSignal(db, date, prompt, emotion) ==
    [db EXCEPT !.mood_signals =
        Append(@, [date |-> date, source |-> "chat", content |-> prompt,
                   mood |-> emotion, polarity |-> ChatPolarity(emotion)])]

\* a faulty variant: the journal entry stored without its mood signal
InsertJournal_EntryOnly(db, date1, date2, entry, mood, polarity) ==
    [db EXCEPT
        !.journal_entries =
            Append(@, [date |-> date1, content |-> entry, mood |-> mood,
                       polarity |-> polarity])]

\* app.py, the journal page's two INSERTs, committed together
InsertJournal(db, date1, date2, entry, mood, polarity) ==
    [db EXCEPT
        !.journal_entries =
            Append(@, [date |-> date1, content |-> entry, mood |-> mood,
                       polarity |-> polarity]),
        !.mood_signals =
            Append(@, [date |-> date2, source |-> "journal", content |-> entry,
                       mood |-> mood, polarity |-> polarity])]

\* The orders a SELECT ... ORDER BY date ASC may return rows in: every
\* arrangement of the rows with dates ascending (rows of equal date in any
\* order).
IndexOrders(n) ==
    {f \in [1..n -> 1..n] : \A i, j \in 1..n : i # j => f[i] # f[j]}
OrderByDate(rows) ==
    {[i \in 1..Len(rows) |-> rows[f[i]]] : f \in
        {g \in IndexOrders(Len(rows)) :
            \A i \in 1..(Len(rows) - 1) : rows[g[i]].date <= rows[g[i + 1]].date}}

RECURSIVE SelectSeq2(_, _)
\* the rows whose source is in the filter, in table order
SelectSeq2(rows, sources) ==
    IF rows = <<>> THEN <<>>
    ELSE (IF Head(rows).source \in sources THEN <<Head(rows)>> ELSE <<>>)
         \o SelectSeq2(Tail(rows), sources)

----------------------------------------------------------------------------
\* mood_plot.py and the Mood Trends page of app.py.

\* mood.lower() of a stored label
LabelLower(mood) ==
    CASE mood = "Positive" -> "positive"
      [] mood = "Negative" -> "negative"
      [] mood = "Neutral" -> "neutral"
      [] OTHER -> mood

\* a faulty variant: the negative branch left out
MoodValue_NoNegative(mood) ==
    IF LabelLower(mood) = "positive" THEN 1 ELSE 0

\* the mood value of one row
MoodValue(mood) ==
    IF LabelLower(mood) = "positive" THEN 1
    ELSE IF LabelLower(mood) = "negative" THEN -1
    ELSE 0

RECURSIVE MapRows(_, _)
MapRows(rows, field) ==
    IF rows = <<>> THEN <<>>
    ELSE <<IF field = "date" THEN Head(rows).date ELSE MoodValue(Head(rows).mood)>>
         \o MapRows(Tail(rows), field)

\* a faulty variant: the chart drawn and saved whatever the rows are
TrendOf_AlwaysChart(rows, image) ==
    [kind |-> "chart", rows |-> rows, dates |-> MapRows(rows, "date"),
     values |-> MapRows(rows, "value"), image |-> image]

\* What either trend view does once its query has returned rows: no data
\* (plot_mood_trend() returns None, the filtered view shows its notice), or
\* the chart drawn from the two lists and saved as image.
TrendOf(rows, image) ==
    IF rows = <<>>
    THEN [kind |-> "no_data", rows |-> rows, dates |-> <<>>, values |-> <<>>,
          image |-> "None"]
    ELSE [kind |-> "chart", rows |-> rows, dates |-> MapRows(rows, "date"),
          values |-> MapRows(rows, "value"), image |-> image]

\* the results plot_mood_trend() can give on a database
plot_mood_trend(db) ==
    LET first == OrderByDate(db.mood_signals)
        read == IF db.mood_signals = <<>> THEN OrderByDate(db.journal_entries)
                ELSE first
    IN  {TrendOf(rows, "static/mood_trend.png") : rows \in read}

\* the inline filtered trend of app.py
filtered_trend(db, source_filter) ==
    LET sources == {source_filter[i] : i \in 1..Len(source_filter)}
    IN  {TrendOf(rows, "static/mood_trend_filtered.png") :
            rows \in OrderByDate(SelectSeq2(db.mood_signals, sources))}

\* if source_filter and set(source_filter) != {"chat", "journal"}
IsFiltered(source_filter) ==
    /\ source_filter # <<>>
    /\ {source_filter[i] : i \in 1..Len(source_filter)} # {"chat", "journal"}

----------------------------------------------------------------------------
\* app.py: the session and the three pages.

MaxSignals == 2

HINT_SNIPPET == 80
HISTORY_TURNS == 10

HintIntents == {"achievement", "overwhelm", "anger", "tiredness", "anxiety"}
Hints(intent) ==
    CASE intent = "achievement" -> <<"E","a","r","l","i","e","r"," ","y","o","u"," ","m","e","n","t","i","o","n","e","d"," ","a"," ","w","i","n"," ","MDASH"," ","c","o","n","g","r","a","t","s"," ","a","g","a","i","n",".">>
      [] intent = "overwhelm" -> <<"E","a","r","l","i","e","r"," ","y","o","u"," ","m","e","n","t","i","o","n","e","d"," ","f","e","e","l","i","n","g"," ","o","v","e","r","w","h","e","l","m","e","d",".">>
      [] intent = "anger" -> <<"E","a","r","l","i","e","r"," ","y","o","u"," ","m","e","n","t","i","o","n","e","d"," ","f","e","e","l","i","n","g"," ","a","n","g","r","y",".">>
      [] intent = "tiredness" -> <<"E","a","r","l","i","e","r"," ","y","o","u"," ","m","e","n","t","i","o","n","e","d"," ","f","e","e","l","i","n","g"," ","w","o","r","n"," ","o","u","t",".">>
      [] intent = "anxiety" -> <<"E","a","r","l","i","e","r"," ","y","o","u"," ","m","e","n","t","i","o","n","e","d"," ","f","e","e","l","i","n","g"," ","a","n","x","i","o","u","s",".">>

\* s[:n] and s[-n:]
FirstN(s, n) == SubSeq(s, 1, IF Len(s) < n THEN Len(s) ELSE n)
LastN(s, n) == SubSeq(s, IF Len(s) < n THEN 1 ELSE Len(s) - n + 1, Len(s))

\* a faulty variant: the hint given again although it was shown before
MemoryHint_NoThrottle(memory_enabled, shown, intent, emotion, achievement, ctx_emotion) ==
    IF memory_enabled /\ intent \in HintIntents
    THEN [line |-> Some(Hints(intent)), shown |-> TRUE]
    ELSE IF memory_enabled /\ emotion \in {"positive", "negative"}
    THEN IF ~shown /\ ctx_emotion = emotion
         THEN [line |->
                 Some(IF emotion = "positive"
                      THEN <<"I","RSQUO","m"," ","g","l","a","d"," ","t","o"," ","h","e","a","r"," ","y","o","u","r"," ","e","n","e","r","g","y"," ","i","s"," ","u","p",".">>
                      ELSE <<"I","RSQUO","m"," ","k","e","e","p","i","n","g"," ","t","h","i","n","g","s"," ","g","e","n","t","l","e"," ","s","i","n","c","e"," ","i","t"," ","s","o","u","n","d","e","d"," ","t","o","u","g","h"," ","e","a","r","l","i","e","r",".">>),
               shown |-> TRUE]
         ELSE [line |-> NoneVal, shown |-> shown]
    ELSE [line |-> NoneVal, shown |-> shown]

\* The memory-hint block of the chat page: [line, shown], the optional
\* memory line and the new value of _memory_hint_shown.  shown is the
\* flag's value on entry, ctx_emotion the emotion of this turn's context.
MemoryHint(memory_enabled, shown, intent, emotion, achievement, ctx_emotion) ==
    IF memory_enabled /\ intent \in HintIntents
    THEN IF ~shown
         THEN [line |->
                 Some(Hints(intent) \o
                      (IF intent = "achievement" /\ Truthy(achievement)
                       THEN <<" ","(","a","b","o","u","t",":"," ","LSQUO">> \o FirstN(achievement.text, HINT_SNIPPET)
                            \o (IF Len(achievement.text) > HINT_SNIPPET
                                THEN <<"HELLIP">> ELSE <<>>)
                            \o <<"RSQUO",")">>
                       ELSE <<>>)),
               shown |-> TRUE]
         ELSE [line |-> NoneVal, shown |-> shown]
    ELSE IF memory_enabled /\ emotion \in {"positive", "negative"}
    THEN IF ~shown /\ ctx_emotion = emotion
         THEN [line |->
                 Some(IF emotion = "positive"
                      THEN <<"I","RSQUO","m"," ","g","l","a","d"," ","t","o"," ","h","e","a","r"," ","y","o","u","r"," ","e","n","e","r","g","y"," ","i","s"," ","u","p",".">>
                      ELSE <<"I","RSQUO","m"," ","k","e","e","p","i","n","g"," ","t","h","i","n","g","s"," ","g","e","n","t","l","e"," ","s","i","n","c","e"," ","i","t"," ","s","o","u","n","d","e","d"," ","t","o","u","g","h"," ","e","a","r","l","i","e","r",".">>),
               shown |-> TRUE]
         ELSE [line |-> NoneVal, shown |-> shown]
    ELSE [line |-> NoneVal, shown |-> shown]

AppInit ==
    /\ tables = {}
    /\ journal_entries = <<>>
    /\ mood_signals = <<>>
    /\ clock = 0
    /\ messages = <<>>
    /\ last_intent = "None"
    /\ last_emotion = "None"
    /\ last_achievement = NoneVal
    /\ memory_hint_shown = [present |-> FALSE, value |-> FALSE]
    /\ page_out = [page |-> "none"]

\* what the user can type and choose
Styles == {"concise", "detailed"}
ChatPrompts ==
    {<<"I"," ","w","o","n"," ","t","h","e"," ","m","a","t","c","h">>, <<"I"," ","a","m"," ","N","o","t"," ","H","a","p","p","y"," ","t","o","d","a","y">>, <<"I","'","m"," ","n","o","t"," ","a","n","g","r","y">>, <<" ", " ">>}
JournalTexts ==
    {<<>>, <<" ", "\n">>, <<"H","a","p","p","y"," ","a","n","d"," ","c","a","l","m">>, <<"s","o"," ","s","a","d">>,
     <<"g","o","o","d"," ","g","o","o","d"," ","g","o","o","d"," ","g","o","o","d"," ","g","o","o","d"," ","g","o","o","d"," ","b","a","d"," ","b","a","d"," ","b","a","d"," ","b","a","d"," ","b","a","d">>}
SourceFilters == {<<>>, <<"chat">>, <<"journal">>, <<"chat", "journal">>}
AppServiceOutcomes ==
    {[kind |-> "timeout", no_choices |-> FALSE, content |-> NoneVal, response |-> NoneVal],
     [kind |-> "ok", no_choices |-> FALSE, content |-> Some(<<" ","T","a","k","e"," ","a"," ","s","l","o","w"," ","b","r","e","a","t","h","."," ">>),
      response |-> NoneVal]}
AppEnvironments ==
    {[openai_key |-> FALSE, openai_installed |-> TRUE, ollama_base_url |-> "unset"]}

\* a faulty variant: every message stored as the user's
AppendMessage_AsUser(msgs, role, content) ==
    Append(msgs, [role |-> "user", content |-> content])

\* st.session_state.messages.append({"role": role, "content": content})
AppendMessage(msgs, role, content) ==
    Append(msgs, [role |-> role, content |-> content])

SetDb(db) ==
    \E d \in {db} :
        /\ tables' = d.tables
        /\ journal_entries' = d.journal_entries
        /\ mood_signals' = d.mood_signals

\* One run of the script on the Chat page with prompt submitted; polarity
\* is TextBlob's polarity of the prompt.  The sidebar's choices (style,
\* memory_enabled), the environment and the behaviour of the generative
\* service are the run's other inputs.  A run that stores something takes
\* place at least a second after the last one that did.
\* A value bound by a quantifier over a one-element set is computed once.
ChatTurn(prompt, polarity) ==
    /\ prompt # <<>>
    /\ Len(mood_signals) < MaxSignals
    /\ \E detected \in {detect_intent_and_emotion(prompt, polarity)} :
       \E ctx \in {IF Contains(lower(prompt), <<"n","o","t"," ","a","n","g","r","y">>)
                   THEN [emotion |-> "neutral", intent |-> "none"]
                   ELSE detected} :
       \E msgs \in {AppendMessage(messages, "user", prompt)} :
       \E achievement \in {IF ctx.intent = "achievement" THEN Some(prompt)
                           ELSE last_achievement} :
       \E style \in Styles, env \in AppEnvironments, service \in AppServiceOutcomes :
       \E base \in {generate_reply(prompt, LastN(msgs, HISTORY_TURNS), style, env,
                                   service, polarity)} :
       \E memory_enabled \in BOOLEAN :
       \E hint \in {MemoryHint(memory_enabled,
                               IF memory_hint_shown.present
                               THEN memory_hint_shown.value ELSE FALSE,
                               ctx.intent, ctx.emotion, achievement, ctx.emotion)} :
       \E reply \in {IF hint.line.some
                     THEN strip(hint.line.text \o <<" ">> \o base.value)
                     ELSE base.value} :
          /\ SetDb(InsertChatSignal(init_db(DB), clock + 1, prompt, ctx.emotion))
          /\ clock' = clock + 1
          /\ last_intent' = ctx.intent
          /\ last_emotion' = ctx.emotion
          /\ last_achievement' = achievement
          /\ IF base.raised
             THEN /\ messages' = msgs
                  /\ memory_hint_shown' = memory_hint_shown
                  /\ page_out' = [page |-> "Chat", turn |-> TRUE, error |-> TRUE,
                                  prompt |-> prompt, polarity |-> polarity,
                                  service |-> service.kind, calls |-> base.calls]
             ELSE /\ messages' = AppendMessage(msgs, "assistant", reply)
                  /\ memory_hint_shown' = [present |-> TRUE, value |-> hint.shown]
                  /\ page_out' = [page |-> "Chat", turn |-> TRUE, error |-> FALSE,
                                  prompt |-> prompt, polarity |-> polarity,
                                  service |-> service.kind, calls |-> base.calls, ctx |-> ctx, base |-> base.value,
                                  llm |-> base.llm, memory_enabled |-> memory_enabled,
                                  hint |-> hint.line.some,
                                  reply |-> reply]
    /\ UNCHANGED <<call, ret>>

\* One run of the script on the Journal page with the form submitted.
\* dt2 is the time between the two datetime.now() calls.
JournalSubmit(entry, dt2) ==
    /\ Len(mood_signals) < MaxSignals
    /\ \E scored \in {analyze_emotion(entry)} :
          IF strip(entry) # <<>>
          THEN /\ SetDb(InsertJournal(init_db(DB), clock + 1, clock + 1 + dt2, entry,
                                      scored.mood, scored.polarity))
               /\ clock' = clock + 1 + dt2
               /\ page_out' = [page |-> "Journal", submitted |-> TRUE, saved |-> TRUE,
                               mood |-> scored.mood, polarity |-> scored.polarity]
          ELSE /\ SetDb(init_db(DB))
               /\ clock' = clock
               /\ page_out' = [page |-> "Journal", submitted |-> TRUE, saved |-> FALSE]
    /\ UNCHANGED <<sessionVars, call, ret>>

\* One run of the script on the Mood Trends page.
TrendView(source_filter) ==
    /\ LET db0 == init_db(DB)
       IN  /\ SetDb(db0)
           /\ \E t \in IF IsFiltered(source_filter)
                       THEN filtered_trend(db0, source_filter)
                       ELSE plot_mood_trend(db0) :
                 page_out' = [page |-> "Mood Trends", source_filter |-> source_filter,
                              filtered |-> IsFiltered(source_filter),
                              kind |-> t.kind, rows |-> t.rows, dates |-> t.dates,
                              values |-> t.values, image |-> t.image]
    /\ UNCHANGED <<clock, sessionVars, call, ret>>

\* One run of the script with nothing submitted: the Chat page without a
\* prompt, or the Journal page without a submission.
ViewPage(page) ==
    /\ SetDb(init_db(DB))
    /\ page_out' = [page |-> page, turn |-> FALSE, submitted |-> FALSE,
                    saved |-> FALSE]
    /\ UNCHANGED <<clock, sessionVars, call, ret>>

Init ==
    /\ AppInit
    /\ call = [fn |-> "none"]
    /\ ret = [done |-> FALSE]

Next ==
    \/ \E prompt \in ChatPrompts :
          \E polarity \in TextBlobPolarity(strip(lower(prompt))) \cap AppPolarityValues :
             ChatTurn(prompt, polarity)
    \/ \E entry \in JournalTexts, dt2 \in 0..1 : JournalSubmit(entry, dt2)
    \/ \E source_filter \in SourceFilters : TrendView(source_filter)
    \/ \E page \in {"Chat", "Journal"} : ViewPage(page)

Spec == Init /\ [][Next]_vars

----------------------------------------------------------------------------
\* The classifier applied to one input: call holds the arguments, ret the
\* returned context.

Join2(a, b) ==
    IF a = <<>> THEN b ELSE IF b = <<>> THEN a ELSE a \o <<" ">> \o b

NegationFragments ==
    {<<>>, <<"I"," ","a","m"," ","n","o","t"," ","h","a","p","p","y"," ","t","o","d","a","y">>, <<"I"," ","a","m"," ","n","o","t"," ","s","a","d"," ","a","n","y","m","o","r","e">>, <<"N","o","t"," ","s","o"," ","g","o","o","d">>,
     <<"n","o","t"," ","f","e","e","l","i","n","g"," ","t","h","a","t"," ","g","r","e","a","t">>, <<"I"," ","d","o","n","'","t"," ","f","e","e","l"," ","o","k","a","y">>, <<"d","o"," ","n","o","t"," ","f","e","e","l"," ","c","a","l","m">>,
     <<"n","o"," ","l","o","n","g","e","r"," ","f","e","e","l","i","n","g"," ","w","o","r","r","i","e","d">>, <<"n","o"," ","l","o","n","g","e","r"," ","f","e","e","l"," ","c","o","n","t","e","n","t">>,
     <<"d","o","n","'","t"," ","f","e","e","l"," ","s","o"," ","a","n","g","r","y">>, <<"n","o","t"," ","s","a","d"," ","b","u","t"," ","n","o","t"," ","h","a","p","p","y">>, <<"k","n","o","t"," ","h","a","p","p","y">>,
     <<"n","o","t"," ","h","a","p","p","y","i","s","h">>, <<"n","o","t","h","a","p","p","y">>, <<"n","o","t"," ","v","e","r","y"," ","h","a","p","p","y">>}
IntentFragments ==
    {<<>>, <<"I"," ","w","o","n">>, <<"t","h","a","n","k","s">>, <<"s","o","r","r","y">>, <<"s","o"," ","m","a","d">>, <<"t","i","r","e","d">>, <<"t","o","o"," ","m","u","c","h">>,
     <<"u","n","s","u","r","e">>, <<"a","l","o","n","e">>, <<"s","t","r","e","s","s">>, <<"m","y"," ","d","i","a","r","y">>, <<"r","e","l","a","x">>, <<"h","e","l","p"," ","m","e">>,
     <<"h","e","y">>, <<"t","h","i","s">>, <<"m","a","d","e">>, <<"w","o","n","d","e","r","f","u","l">>}
SecondFragments == {<<>>, <<"T","h","a","n","k"," ","Y","o","u">>, <<"p","r","o","u","d"," ","o","f"," ","i","t">>, <<"j","o","u","r","n","a","l">>}
Paddings == {<<>>, <<" ", "\t">>}

ClassifyInputs ==
    {p \o Join2(n, Join2(i, j)) \o p :
        p \in Paddings, n \in NegationFragments, i \in IntentFragments,
        j \in SecondFragments}

InitClassify ==
    /\ AppInit
    /\ \E t \in ClassifyInputs : \E p \in TextBlobPolarity(strip(lower(t))) :
          call = [fn |-> "detect_intent_and_emotion", user_input |-> t, polarity |-> p]
    /\ ret = [done |-> FALSE]

Classify ==
    /\ call.fn = "detect_intent_and_emotion"
    /\ ~ret.done
    /\ ret' = [done |-> TRUE,
               ctx |-> detect_intent_and_emotion(call.user_input, call.polarity)]
    /\ UNCHANGED <<appVars, call>>

NextClassify == Classify

SpecClassify == InitClassify /\ [][NextClassify]_vars

----------------------------------------------------------------------------
\* generate_reply applied to one input, with the environment and the
\* behaviour of the generative service as inputs.

ReplyInputs ==
    {<<>>, <<" ", " ">>, <<"I"," ","w","o","n">>, <<"T","h","a","n","k","s">>, <<"I"," ","a","m"," ","n","o","t"," ","h","a","p","p","y"," ","t","o","d","a","y">>,
     <<"h","e","l","l","o">>, <<"w","h","a","t"," ","n","o","w">>, <<"i","t"," ","r","a","i","n","s","?">>, <<"n","o","t","e"," ","t","o"," ","s","e","l","f">>, <<"t","h","e"," ","s","k","y">>}
LlmTexts == {<<>>, <<" ", "\n">>, <<" ","T","a","k","e"," ","a"," ","s","l","o","w"," ","b","r","e","a","t","h","."," ">>}
ServiceOutcomes ==
    {[kind |-> k, no_choices |-> FALSE, content |-> NoneVal, response |-> NoneVal] :
        k \in {"timeout", "connect_error", "http_error", "bad_json"}}
    \cup {[kind |-> "ok", no_choices |-> TRUE, content |-> NoneVal, response |-> NoneVal]}
    \cup {[kind |-> "ok", no_choices |-> FALSE, content |-> c, response |-> NoneVal] :
            c \in {NoneVal} \cup {Some(t) : t \in LlmTexts}}
    \cup {[kind |-> "ok", no_choices |-> FALSE, content |-> c, response |-> Some(<<"T","r","y"," ","a"," ","w","a","l","k",".">>)] :
            c \in {NoneVal, Some(<<>>)}}
Environments ==
    {[openai_key |-> k, openai_installed |-> i, ollama_base_url |-> u] :
        k \in BOOLEAN, i \in BOOLEAN, u \in {"unset", "empty", "set"}}
Histories == {<<>>, <<[role |-> "user", content |-> <<"h","i">>]>>}

InitReply ==
    /\ AppInit
    /\ \E t \in ReplyInputs : \E p \in TextBlobPolarity(strip(lower(t))) :
          call \in {[fn |-> "generate_reply", user_input |-> t, polarity |-> p,
                     history |-> h, style |-> s, env |-> e, service |-> sv] :
                        h \in Histories, s \in Styles, e \in Environments,
                        sv \in ServiceOutcomes}
    /\ ret = [done |-> FALSE]

Reply ==
    /\ call.fn = "generate_reply"
    /\ ~ret.done
    /\ ret' = [done |-> TRUE,
               reply |-> generate_reply(call.user_input, call.history, call.style,
                                        call.env, call.service, call.polarity)]
    /\ UNCHANGED <<appVars, call>>

NextReply == Reply

SpecReply == InitReply /\ [][NextReply]_vars

----------------------------------------------------------------------------
\* Properties.

Emotions == {"positive", "negative", "neutral"}
RuleOrder ==
    <<"achievement", "gratitude", "apology", "anger", "tiredness", "overwhelm",
      "confusion", "loneliness", "anxiety", "journal", "breathing", "capability",
      "greet">>
Intents == {RuleOrder[k] : k \in 1..Len(RuleOrder)} \cup {"none"}
RulePhrases(intent) ==
    CASE intent = "achievement" -> AchievementPhrases
      [] intent = "gratitude" -> GratitudePhrases
      [] intent = "apology" -> ApologyPhrases
      [] intent = "anger" -> AngerPhrases
      [] intent = "tiredness" -> TirednessPhrases
      [] intent = "overwhelm" -> OverwhelmPhrases
      [] intent = "confusion" -> ConfusionPhrases
      [] intent = "loneliness" -> LonelinessPhrases
      [] intent = "anxiety" -> AnxietyPhrases
      [] intent = "journal" -> {<<"j","o","u","r","n","a","l">>} \cup JournalOtherPhrases
      [] intent = "breathing" -> BreathingPhrases
      [] intent = "capability" -> CapabilityPhrases
      [] intent = "greet" -> GreetPhrases
RuleMatches(k, text) == \E p \in RulePhrases(RuleOrder[k]) : Contains(text, p)
CannedReplies ==
    {R_DEFAULT, R_ACHIEVEMENT, R_GRATITUDE, R_APOLOGY, R_ANGER, R_TIREDNESS,
     R_OVERWHELM, R_CONFUSION, R_LONELINESS, R_ANXIETY, R_SAD, R_HAPPY, R_JOURNAL,
     R_BREATHING, R_CAPABILITY, R_GREET, R_POSITIVE, R_NEGATIVE, R_QUESTION,
     R_GENERIC}
IsPrefix(s, t) == Len(s) <= Len(t) /\ SubSeq(t, 1, Len(s)) = s
Last(s) == s[Len(s)]
\* the lowercased, trimmed text of the classifier's input
ClassifiedText == strip(lower(call.user_input))

\* Whether the generative service was called and failed: the call timed
\* out, could not connect, answered non-2xx or with a malformed body, or
\* answered with no text (no choices, no content, empty or blank content).
ServiceCallFails ==
    LET env == call.env
        service == call.service
        use_openai == env.openai_key /\ env.openai_installed
        called == use_openai \/ env.ollama_base_url # "empty"
        payload ==
            IF use_openai
            THEN (IF service.no_choices \/ ~service.content.some THEN <<>>
                  ELSE service.content.text)
            ELSE (IF service.content.some /\ service.content.text # <<>>
                  THEN service.content.text
                  ELSE IF service.response.some THEN service.response.text
                  ELSE <<>>)
    IN  called /\ (service.kind # "ok" \/ strip(payload) = <<>>)

\* C1: when the generative-service call fails, generate_reply raises
\* nothing and returns the non-empty canned reply get_response chooses for
\* the input, whatever the history and the style.
C1_FallbackOnFailure ==
    (ret.done /\ call.fn = "generate_reply" /\ ServiceCallFails) =>
        /\ ~ret.reply.raised
        /\ ~ret.reply.llm
        /\ Len(ret.reply.value) > 0
        /\ ret.reply.value \in CannedReplies
        /\ ret.reply.value = get_response(call.user_input, call.polarity)
C1_Witness ==
    /\ ret.done
    /\ call.fn = "generate_reply"
    /\ call.service.kind = "timeout"
    /\ call.style = "detailed"
    /\ call.history # <<>>
    /\ call.user_input = <<"I"," ","w","o","n">>
    /\ ret.reply.calls = 1
    /\ ret.reply.value = R_ACHIEVEMENT

AllRows ==
    {journal_entries[i] : i \in 1..Len(journal_entries)}
    \cup {mood_signals[i] : i \in 1..Len(mood_signals)}

\* C2 as stated: in every state of the store each persisted row's label is
\* the sign of its polarity (polarity > 0: positive, < 0: negative, else
\* neutral).
C2_SignAgreement ==
    \A r \in AllRows :
        r.mood = (IF r.polarity.num > 0 THEN "positive"
                  ELSE IF r.polarity.num < 0 THEN "negative"
                  ELSE "neutral")
\* C2 amended: each persisted row's label is positive exactly when its
\* polarity is above 0.1, negative exactly when it is below -0.1 and neutral
\* otherwise, so a label never has the sign opposite to its polarity's;
\* a chat signal's polarity is 1.0, -1.0 or 0.0 and its label is its sign.
C2_ThresholdAgreement ==
    /\ \A r \in AllRows :
        /\ r.polarity.den > 0
        /\ r.mood = (IF 10 * r.polarity.num > r.polarity.den THEN "positive"
                     ELSE IF 10 * r.polarity.num < -r.polarity.den THEN "negative"
                     ELSE "neutral")
        /\ r.mood = "positive" => r.polarity.num > 0
        /\ r.mood = "negative" => r.polarity.num < 0
    /\ \A i \in 1..Len(mood_signals) :
        mood_signals[i].source = "chat" =>
            /\ mood_signals[i].polarity \in {Frac(1, 1), Frac(-1, 1), Frac(0, 1)}
            /\ mood_signals[i].mood =
                  (IF mood_signals[i].polarity.num > 0 THEN "positive"
                   ELSE IF mood_signals[i].polarity.num < 0 THEN "negative"
                   ELSE "neutral")
C2_Witness ==
    /\ \E i \in 1..Len(journal_entries) :
          /\ journal_entries[i].polarity = [num |-> 1, den |-> 11]
          /\ journal_entries[i].mood = "neutral"
    /\ \E i \in 1..Len(mood_signals) :
          /\ mood_signals[i].source = "chat"
          /\ mood_signals[i].mood = "neutral"
          /\ mood_signals[i].polarity = [num |-> 0, den |-> 1]

\* C3: both tables are append-only: every step of the application (a chat
\* turn, a journal submission, a trend view, a start that runs init_db)
\* leaves each table's earlier rows in place as a prefix of its rows.
C3_AppendOnly ==
    [][/\ IsPrefix(journal_entries, journal_entries')
       /\ IsPrefix(mood_signals, mood_signals')]_vars
C3_Witness ==
    /\ Len(journal_entries) = 1
    /\ Len(mood_signals) = 2
    /\ page_out.page = "Mood Trends"
    /\ page_out.kind = "chart"

ChatTurnStep == page_out'.page = "Chat" /\ page_out'.turn
JournalSubmitStep == page_out'.page = "Journal" /\ page_out'.submitted
JournalSavedStep == JournalSubmitStep /\ page_out'.saved
AppendsChatSignal ==
    /\ journal_entries' = journal_entries
    /\ Len(mood_signals') = Len(mood_signals) + 1
    /\ IsPrefix(mood_signals, mood_signals')
    /\ Last(mood_signals').source = "chat"
AppendsJournalPair ==
    /\ Len(journal_entries') = Len(journal_entries) + 1
    /\ IsPrefix(journal_entries, journal_entries')
    /\ Len(mood_signals') = Len(mood_signals) + 1
    /\ IsPrefix(mood_signals, mood_signals')
    /\ Last(mood_signals').source = "journal"
    /\ Last(mood_signals').content = Last(journal_entries').content
    /\ Last(mood_signals').mood = Last(journal_entries').mood
    /\ Last(mood_signals').polarity = Last(journal_entries').polarity
AppendsNothing ==
    /\ journal_entries' = journal_entries
    /\ mood_signals' = mood_signals

\* C4 as stated: every chat turn appends exactly one chat mood signal, every
\* journal submission appends exactly one journal entry with one journal
\* mood signal of the same content, label and polarity, and no other action
\* appends a record.
C4_EverySubmissionAppends ==
    [][/\ ChatTurnStep => AppendsChatSignal
       /\ JournalSubmitStep => AppendsJournalPair
       /\ ~ChatTurnStep /\ ~JournalSubmitStep => AppendsNothing]_vars
\* C4 amended: every chat turn appends exactly one chat mood signal, every
\* journal submission whose text is not blank appends exactly one journal
\* entry with one journal mood signal of the same content, label and
\* polarity, and no other action (a blank journal submission among them)
\* appends a record.
C4_AppendsPerAction ==
    [][/\ ChatTurnStep => AppendsChatSignal
       /\ JournalSavedStep => AppendsJournalPair
       /\ ~ChatTurnStep /\ ~JournalSavedStep => AppendsNothing]_vars
C4_Witness ==
    /\ page_out.page = "Journal"
    /\ page_out.saved
    /\ Len(journal_entries) = 1
    /\ Len(mood_signals) = 2
    /\ mood_signals[1].source = "chat"
    /\ mood_signals[2].source = "journal"
    /\ mood_signals[2].content = journal_entries[1].content

\* the sources a trend view selected, and the part of the event log it reads
SelectedSources ==
    {page_out.source_filter[i] : i \in 1..Len(page_out.source_filter)}
TrendLog ==
    IF SelectedSources \in {{"chat"}, {"journal"}}
    THEN {i \in 1..Len(mood_signals) : mood_signals[i].source \in SelectedSources}
    ELSE 1..Len(mood_signals)

\* C5: a trend view whose event log (all mood signals, or those of the
\* selected source for a filtered view) is empty gives "no data" and no
\* chart image; a chart image is produced only with at least one record
\* plotted.
C5_NoDataWhenEmpty ==
    page_out.page = "Mood Trends" =>
        /\ TrendLog = {} =>
              /\ page_out.kind = "no_data"
              /\ page_out.image = "None"
              /\ page_out.values = <<>>
        /\ page_out.image # "None" =>
              /\ page_out.kind = "chart"
              /\ Len(page_out.values) >= 1
              /\ Len(page_out.values) = Cardinality(TrendLog)
C5_Witness ==
    /\ page_out.page = "Mood Trends"
    /\ page_out.source_filter = <<"chat">>
    /\ mood_signals # <<>>
    /\ page_out.kind = "no_data"
    /\ page_out.image = "None"

\* C6: for the non-empty rows the store returned, the aggregator's dates
\* and values have the length and the order of the rows, the i-th value
\* being 1 for a positive label, -1 for a negative one and 0 otherwise.
C6_SeriesOfLabels ==
    (page_out.page = "Mood Trends" /\ page_out.rows # <<>>) =>
        /\ page_out.kind = "chart"
        /\ Len(page_out.dates) = Len(page_out.rows)
        /\ Len(page_out.values) = Len(page_out.rows)
        /\ \A i \in 1..Len(page_out.rows) :
              /\ page_out.dates[i] = page_out.rows[i].date
              /\ page_out.values[i] =
                    (IF page_out.rows[i].mood = "positive" THEN 1
                     ELSE IF page_out.rows[i].mood = "negative" THEN -1
                     ELSE 0)
C6_Witness ==
    /\ page_out.page = "Mood Trends"
    /\ Len(page_out.rows) = 2
    /\ page_out.rows[1].mood = "negative"
    /\ page_out.rows[2].mood = "neutral"
    /\ page_out.values = <<-1, 0>>
    /\ page_out.dates = <<page_out.rows[1].date, page_out.rows[2].date>>

\* C7: the intent is that of the first rule, in the order achievement,
\* gratitude, apology, anger, tiredness, overwhelm, confusion, loneliness,
\* anxiety, journal, breathing, capability, greet, one of whose phrases the
\* lowercased trimmed text contains, and "none" when no rule matches; a text
\* with an achievement phrase and a gratitude phrase is an achievement.
C7_FirstMatchingRule ==
    (ret.done /\ call.fn = "detect_intent_and_emotion") =>
        /\ \A k \in 1..Len(RuleOrder) :
              (RuleMatches(k, ClassifiedText)
               /\ \A j \in 1..(k - 1) : ~RuleMatches(j, ClassifiedText))
                  => ret.ctx.intent = RuleOrder[k]
        /\ (\A k \in 1..Len(RuleOrder) : ~RuleMatches(k, ClassifiedText))
              => ret.ctx.intent = "none"
        /\ (RuleMatches(1, ClassifiedText) /\ RuleMatches(2, ClassifiedText))
              => ret.ctx.intent = "achievement"
C7_Witness ==
    /\ ret.done
    /\ call.fn = "detect_intent_and_emotion"
    /\ contains_any(ClassifiedText, AchievementPhrases)
    /\ contains_any(ClassifiedText, GratitudePhrases)
    /\ ret.ctx.intent = "achievement"

\* C8: a text that matches a negated-positive pattern is classified
\* negative, whatever its base polarity.
C8_NegatedPositiveIsNegative ==
    (/\ ret.done
     /\ call.fn = "detect_intent_and_emotion"
     /\ \/ has_negated(ClassifiedText, positive_terms)
        \/ has_negated(call.user_input, positive_terms))
        => ret.ctx.emotion = "negative"
C8_Witness ==
    /\ ret.done
    /\ call.fn = "detect_intent_and_emotion"
    /\ Contains(call.user_input, <<"I"," ","a","m"," ","n","o","t"," ","h","a","p","p","y"," ","t","o","d","a","y">>)
    /\ call.polarity = 100
    /\ ret.ctx.emotion = "negative"

\* C9 as stated: a text that matches a negated-negative pattern is
\* classified neutral, whatever its base polarity.
C9_NegatedNegativeIsNeutral ==
    (/\ ret.done
     /\ call.fn = "detect_intent_and_emotion"
     /\ has_negated(ClassifiedText, negative_terms))
        => ret.ctx.emotion = "neutral"
\* C9 amended: a text that matches a negated-negative pattern and no
\* negated-positive pattern is classified neutral, whatever its base
\* polarity; one that matches both is classified negative.
C9_NegatedNegativeAlone ==
    (/\ ret.done
     /\ call.fn = "detect_intent_and_emotion"
     /\ has_negated(ClassifiedText, negative_terms))
        => ret.ctx.emotion =
              (IF has_negated(ClassifiedText, positive_terms) THEN "negative"
               ELSE "neutral")
C9_Witness ==
    /\ ret.done
    /\ call.fn = "detect_intent_and_emotion"
    /\ Contains(call.user_input, <<"I"," ","a","m"," ","n","o","t"," ","s","a","d"," ","a","n","y","m","o","r","e">>)
    /\ ~has_negated(ClassifiedText, positive_terms)
    /\ call.polarity = -100
    /\ ret.ctx.emotion = "neutral"

\* C10: the classifier returns for every input, the empty one included, an
\* emotion among positive, negative, neutral and an intent among the 14
\* intents; for the empty input the intent is "none" and the emotion neutral.
C10_Total ==
    (call.fn = "detect_intent_and_emotion" /\ ret.done) =>
              /\ DOMAIN ret.ctx = {"emotion", "intent"}
              /\ ret.ctx.emotion \in Emotions
              /\ ret.ctx.intent \in Intents
              /\ Cardinality(Intents) = 14
              /\ call.user_input = <<>> =>
                    (ret.ctx.intent = "none" /\ ret.ctx.emotion = "neutral")
C10_Witness ==
    /\ ret.done
    /\ call.fn = "detect_intent_and_emotion"
    /\ call.user_input = <<>>
    /\ ret.ctx = [emotion |-> "neutral", intent |-> "none"]

\* a text that is empty or of whitespace only
IsBlank(text) == strip(text) = <<>>
BlankChatStep == ChatTurnStep /\ IsBlank(page_out'.prompt)
EmptyChatStep == page_out'.page = "Chat" /\ ~page_out'.turn
BlankJournalStep == JournalSubmitStep /\ ~page_out'.saved
NoOp ==
    /\ messages' = messages
    /\ last_intent' = last_intent
    /\ last_emotion' = last_emotion
    /\ last_achievement' = last_achievement
    /\ journal_entries' = journal_entries
    /\ mood_signals' = mood_signals

\* C11: a chat or journal action whose input is empty or of whitespace only
\* leaves the conversation history, the session fields and both tables
\* unchanged, and a reply produced for such an input is the default prompt,
\* never an error.
C11_BlankInputNoOp ==
    [][/\ (BlankChatStep \/ EmptyChatStep \/ BlankJournalStep) => NoOp
       /\ BlankChatStep => (~page_out'.error /\ page_out'.reply = R_DEFAULT)]_vars

\* no generative-service configuration in the environment: OPENAI_API_KEY
\* and OLLAMA_BASE_URL are both unset
NoConfiguration ==
    /\ ~call.env.openai_key
    /\ call.env.ollama_base_url = "unset"

\* C12: with no generative-service configuration in the environment,
\* get_llm_response makes no remote call and returns None, and
\* generate_reply gives the rule-based reply without raising.
C12_DisabledWithoutConfiguration ==
    (ret.done /\ call.fn = "generate_reply" /\ NoConfiguration) =>
        /\ ret.reply.calls = 0
        /\ ~ret.reply.llm
        /\ ~ret.reply.raised
        /\ ret.reply.value = get_response(call.user_input, call.polarity)

----------------------------------------------------------------------------
\* analyze_emotion applied to one text.

AnalyzeWords ==
    {<<"h","a","p","p","y">>, <<"C","a","l","m">>, <<"s","a","d">>, <<"B","A","D">>, <<"t","h","e">>, <<"h","a","p","p","y","1">>, <<"u","n","h","a","p","p","y">>}
AnalyzeSeparators == {<<" ">>, <<",", " ">>, <<"-">>}
AnalyzeInputs ==
    {<<>>, <<" ", "\n">>}
    \cup AnalyzeWords
    \cup {a \o sep \o b : a \in AnalyzeWords, b \in AnalyzeWords, sep \in AnalyzeSeparators}
    \cup {a \o <<" ">> \o b \o <<" ">> \o c :
             a \in AnalyzeWords, b \in AnalyzeWords, c \in AnalyzeWords}

InitAnalyze ==
    /\ AppInit
    /\ call \in {[fn |-> "analyze_emotion", entry_text |-> t] : t \in AnalyzeInputs}
    /\ ret = [done |-> FALSE]

Analyze ==
    /\ call.fn = "analyze_emotion"
    /\ ~ret.done
    /\ ret' = [done |-> TRUE, result |-> analyze_emotion(call.entry_text)]
    /\ UNCHANGED <<appVars, call>>

NextAnalyze == Analyze

SpecAnalyze == InitAnalyze /\ [][NextAnalyze]_vars

\* the numbers of tokens of the scored text that are in each word list
ScoredTokens == Tokens(lower(call.entry_text))
PositiveTokens == CountIn(ScoredTokens, POSITIVE_WORDS)
NegativeTokens == CountIn(ScoredTokens, NEGATIVE_WORDS)

\* C13: a text with at least one token in a word list and all such tokens
\* in the same list scores polarity exactly 1.0 and mood positive when the
\* list is the positive one, polarity exactly -1.0 and mood negative when it
\* is the negative one, whatever tokens of neither list it has.
C13_SingleListPolarity ==
    (ret.done /\ call.fn = "analyze_emotion") =>
        /\ (PositiveTokens > 0 /\ NegativeTokens = 0) =>
              ret.result = [mood |-> "positive", polarity |-> [num |-> 1, den |-> 1]]
        /\ (NegativeTokens > 0 /\ PositiveTokens = 0) =>
              ret.result = [mood |-> "negative", polarity |-> [num |-> -1, den |-> 1]]
C13_Witness ==
    /\ ret.done
    /\ call.fn = "analyze_emotion"
    /\ call.entry_text = <<"t","h","e"," ","u","n","h","a","p","p","y"," ","B","A","D">>
    /\ ret.result = [mood |-> "negative", polarity |-> [num |-> -1, den |-> 1]]

\* C14: a text with as many positive-list tokens as negative-list tokens,
\* none of either and the empty text included, scores polarity exactly 0.0
\* and mood neutral.
C14_BalancedIsNeutral ==
    (ret.done /\ call.fn = "analyze_emotion" /\ PositiveTokens = NegativeTokens) =>
        ret.result = [mood |-> "neutral", polarity |-> [num |-> 0, den |-> 1]]
C14_Witness ==
    /\ ret.done
    /\ call.fn = "analyze_emotion"
    /\ call.entry_text = <<>>
    /\ ret.result = [mood |-> "neutral", polarity |-> [num |-> 0, den |-> 1]]

----------------------------------------------------------------------------
\* get_response applied to one input.

ResponseFragments ==
    {<<"I"," ","w","o","n">>, <<"T","h","a","n","k","s">>, <<"s","o","r","r","y">>, <<"s","o"," ","m","a","d">>, <<"t","i","r","e","d">>, <<"t","o","o"," ","m","u","c","h">>, <<"u","n","s","u","r","e">>,
     <<"l","o","n","e","l","y">>, <<"a","n","x","i","e","t","y">>, <<"m","y"," ","d","i","a","r","y">>, <<"r","e","l","a","x">>, <<"h","e","l","p"," ","m","e">>, <<"H","e","l","l","o">>,
     <<"t","h","e"," ","s","k","y">>, <<"w","h","a","t"," ","n","o","w">>, <<" ","w","h","a","t"," ","n","o","w">>, <<"i","t"," ","r","a","i","n","s","?">>, <<"f","e","e","l","i","n","g"," ","b","l","u","e">>,
     <<"p","u","r","e"," ","j","o","y">>}
ResponseSuffixes == {<<>>, <<" ","b","l","u","e">>, <<" ","j","o","y">>, <<" ","d","i","a","r","y">>, <<" ","h","e","l","l","o">>}
ResponseInputs ==
    {<<>>, <<" ", " ">>}
    \cup {a \o b : a \in ResponseFragments, b \in ResponseSuffixes}

InitResponse ==
    /\ AppInit
    /\ \E t \in ResponseInputs : \E p \in TextBlobPolarity(strip(lower(t))) :
          call = [fn |-> "get_response", user_input |-> t, polarity |-> p]
    /\ ret = [done |-> FALSE]

Response ==
    /\ call.fn = "get_response"
    /\ ~ret.done
    /\ ret' = [done |-> TRUE, value |-> get_response(call.user_input, call.polarity)]
    /\ UNCHANGED <<appVars, call>>

NextResponse == Response

SpecResponse == InitResponse /\ [][NextResponse]_vars

\* The reply rules in their fixed order: rules 1 to 9 are the intents
\* achievement to anxiety, 10 the sentiment-word fallback, 11 the
\* positive-sentiment fallback, 12 to 15 journal, breathing, capability
\* and greeting, 16 and 17 the emotion-only fallback, 18 the question
\* detection, 19 the generic reply.
ReplyRuleHolds(k, text, emotion) ==
    IF k <= 9 THEN RuleMatches(k, strip(text))
    ELSE IF k = 10 THEN contains_any(text, SadWords) \/ emotion = "negative"
    ELSE IF k = 11 THEN contains_any(text, HappyWords) \/ emotion = "positive"
    ELSE IF k <= 15 THEN RuleMatches(k - 2, strip(text))
    ELSE IF k = 16 THEN emotion = "positive"
    ELSE IF k = 17 THEN emotion = "negative"
    ELSE IF k = 18 THEN question_like(text)
    ELSE TRUE
ReplyRuleReplies ==
    <<R_ACHIEVEMENT, R_GRATITUDE, R_APOLOGY, R_ANGER, R_TIREDNESS, R_OVERWHELM,
      R_CONFUSION, R_LONELINESS, R_ANXIETY, R_SAD, R_HAPPY, R_JOURNAL, R_BREATHING,
      R_CAPABILITY, R_GREET, R_POSITIVE, R_NEGATIVE, R_QUESTION, R_GENERIC>>
\* the context get_response works from
ResponseContext == detect_intent_and_emotion(lower(call.user_input), call.polarity)

\* C15: for a non-blank input get_response returns the canned reply of the
\* first rule that holds in the fixed order; an intent from achievement to
\* anxiety decides the reply whatever the emotion, and a negative or
\* positive emotion decides it before a journal, breathing, capability or
\* greeting intent does.
C15_FirstReplyRule ==
    (ret.done /\ call.fn = "get_response" /\ ~IsBlank(call.user_input)) =>
        LET text == lower(call.user_input)
            ctx == ResponseContext
        IN  /\ \A k \in 1..Len(ReplyRuleReplies) :
                  (/\ ReplyRuleHolds(k, text, ctx.emotion)
                   /\ \A j \in 1..(k - 1) : ~ReplyRuleHolds(j, text, ctx.emotion))
                      => ret.value = ReplyRuleReplies[k]
            /\ \A k \in 1..9 :
                  ctx.intent = RuleOrder[k] => ret.value = ReplyRuleReplies[k]
            /\ (ctx.intent \in {"journal", "breathing", "capability", "greet"}
                /\ ctx.emotion # "neutral")
                  => /\ ret.value \in {R_SAD, R_HAPPY}
                     /\ ctx.emotion = "negative" => ret.value = R_SAD
C15_Witness ==
    /\ ret.done
    /\ call.fn = "get_response"
    /\ call.user_input = <<"m","y"," ","d","i","a","r","y">>
    /\ call.polarity = -100
    /\ ResponseContext = [emotion |-> "negative", intent |-> "journal"]
    /\ ret.value = R_SAD

----------------------------------------------------------------------------
\* The chat turn.

\* C16: in one chat turn the generative service is called at most once;
\* after a timeout or an error of the call the turn goes on to the
\* rule-based reply with no second call, and the turn ends with exactly one
\* reply appended after the user's prompt.
C16_OneCallOneReply ==
    [][ChatTurnStep =>
          /\ ~page_out'.error
          /\ page_out'.calls <= 1
          /\ page_out'.service # "ok" =>
                /\ page_out'.calls = 1
                /\ ~page_out'.llm
                /\ page_out'.base = get_response(page_out'.prompt, page_out'.polarity)
          /\ messages' = messages \o
                <<[role |-> "user", content |-> page_out'.prompt],
                  [role |-> "assistant", content |-> page_out'.reply]>>]_vars
C16_Witness ==
    /\ page_out.page = "Chat"
    /\ page_out.turn
    /\ page_out.service = "timeout"
    /\ page_out.calls = 1
    /\ page_out.prompt = <<"I"," ","w","o","n"," ","t","h","e"," ","m","a","t","c","h">>
    /\ page_out.base = R_ACHIEVEMENT
    /\ Len(messages) = 4
    /\ Last(messages).role = "assistant"

\* the memory-hint lines a reply can start with
HintPrefixes ==
    {Hints(intent) : intent \in HintIntents}
    \cup {<<"I","RSQUO","m"," ","g","l","a","d"," ","t","o"," ","h","e","a","r"," ","y","o","u","r"," ","e","n","e","r","g","y"," ","i","s"," ","u","p",".">>,
          <<"I","RSQUO","m"," ","k","e","e","p","i","n","g"," ","t","h","i","n","g","s"," ","g","e","n","t","l","e"," ","s","i","n","c","e"," ","i","t"," ","s","o","u","n","d","e","d"," ","t","o","u","g","h"," ","e","a","r","l","i","e","r",".">>}
\* the assistant replies of a conversation that start with a memory-hint line
HintedReplies(msgs) ==
    {i \in 1..Len(msgs) :
        /\ msgs[i].role = "assistant"
        /\ \E p \in HintPrefixes : IsPrefix(p, msgs[i].content)}
\* whether the hint-shown flag is set
HintShown(flag) == flag.present /\ flag.value

\* C17: in one session at most one assistant reply starts with a
\* memory-hint line: once the hint-shown flag is set it stays set and every
\* later reply is the base reply unchanged, and a turn with memory hints
\* disabled adds no hint and leaves the flag as it was.
C17_HintAtMostOnce ==
    [][/\ Cardinality(HintedReplies(messages')) <= 1
       /\ HintShown(memory_hint_shown) => HintShown(memory_hint_shown')
       /\ ChatTurnStep =>
             /\ HintShown(memory_hint_shown) =>
                   (~page_out'.hint /\ page_out'.reply = page_out'.base)
             /\ page_out'.hint =>
                   (~HintShown(memory_hint_shown) /\ HintShown(memory_hint_shown'))
             /\ ~page_out'.hint => page_out'.reply = page_out'.base
             /\ ~page_out'.memory_enabled =>
                   /\ ~page_out'.hint
                   /\ HintShown(memory_hint_shown') = HintShown(memory_hint_shown)
             /\ page_out'.hint = (Len(messages') \in HintedReplies(messages'))
       /\ ~ChatTurnStep => memory_hint_shown' = memory_hint_shown]_vars
C17_Witness ==
    /\ page_out.page = "Chat"
    /\ page_out.turn
    /\ page_out.memory_enabled
    /\ page_out.ctx.intent = "achievement"
    /\ ~page_out.hint
    /\ page_out.reply = page_out.base
    /\ HintShown(memory_hint_shown)
    /\ HintedReplies(messages) = {2}
    /\ Len(messages) = 4

\* a conversation of whole turns: user, assistant, user, assistant, ...
Alternates(msgs) ==
    /\ Len(msgs) % 2 = 0
    /\ \A i \in 1..Len(msgs) :
          msgs[i].role = (IF i % 2 = 1 THEN "user" ELSE "assistant")

\* C18: after any sequence of chat turns the conversation history has even
\* length and alternates user, assistant from the start; a turn appends the
\* user's prompt and then one assistant reply, and no step removes or
\* rewrites an earlier message.
C18_HistoryAlternates ==
    [][/\ Alternates(messages)
       /\ Alternates(messages')
       /\ IsPrefix(messages, messages')
       /\ ChatTurnStep =>
             /\ Len(messages') = Len(messages) + 2
             /\ messages'[Len(messages) + 1] =
                   [role |-> "user", content |-> page_out'.prompt]
             /\ messages'[Len(messages) + 2] =
                   [role |-> "assistant", content |-> page_out'.reply]
       /\ ~ChatTurnStep => messages' = messages]_vars
C18_Witness ==
    /\ Len(messages) = 4
    /\ messages[1] = [role |-> "user", content |-> <<"I"," ","a","m"," ","N","o","t"," ","H","a","p","p","y"," ","t","o","d","a","y">>]
    /\ messages[2].role = "assistant"
    /\ messages[3] = [role |-> "user", content |-> <<"I"," ","w","o","n"," ","t","h","e"," ","m","a","t","c","h">>]
    /\ messages[4].role = "assistant"
    /\ page_out.page = "Journal"

\* the context get_response selects the reply of the last chat turn from
ReplyContext == detect_intent_and_emotion(lower(page_out.prompt), page_out.polarity)

\* C19: for a chat turn answered by the rule-based path, the context the
\* canned reply is selected from is the context the turn stores in
\* last_intent and last_emotion and persists as the mood of its chat signal.
C19_SameContext ==
    (page_out.page = "Chat" /\ page_out.turn /\ ~page_out.error /\ ~page_out.llm) =>
        /\ ReplyContext.intent = last_intent
        /\ ReplyContext.emotion = last_emotion
        /\ Last(mood_signals).source = "chat"
        /\ Last(mood_signals).mood = ReplyContext.emotion

====
